---- MODULE Spec2Model ----
(***************************************************************************)
(* nats-top (src/nats-top.go): the sampler goroutine monitorStats, the     *)
(* update goroutine and the foreground event loop of StartUI, the delayed  *)
(* "invalid order" goroutine and the resize redraw goroutines.             *)
(*                                                                         *)
(* Conventions.  A string is a sequence of one-character strings.  A       *)
(* float64 rate is an exact rational [num, den] in lowest terms.  Wall     *)
(* clock time is counted in ticks, TicksPerSec ticks to the second.        *)
(***************************************************************************)
EXTENDS Integers, Sequences, FiniteSets, TLC

(***************************************************************************)
(* Bounds of the model.                                                    *)
(***************************************************************************)
\* clock resolution: ticks per second
TicksPerSec == 50
\* sampler cycles explored by SpecSampler
MaxCycles == 3
\* sampler cycles explored by SpecHist
MaxHistCycles == 154
\* events handled by the foreground loop in SpecInput
MaxEvents == 5
\* events handled by the foreground loop in SpecSampler
MaxSamplerEvents == 1
\* sampler cycles and events explored by Spec
MaxMainCycles == 2
MaxMainEvents == 4
\* sampler cycles explored by SpecRace
MaxRaceCycles == 1
\* "invalid order" goroutines alive at one time
MaxInvalid == 1
\* resize goroutines blocked on the redraw channel at one time
MaxResize == 1

(***************************************************************************)
(* Numbers: float64 as exact rationals, int() truncation.                  *)
(***************************************************************************)
Abs(n) == IF n < 0 THEN -n ELSE n

RECURSIVE GCD(_, _)
GCD(a, b) == IF b = 0 THEN a ELSE GCD(b, a % b)

\* n/d as a float64: the exact quotient in lowest terms (d > 0); a zero
\* divisor gives the IEEE infinities and NaN, kept as sign/0.
Rat(n, d) ==
    IF d = 0 THEN [num |-> IF n > 0 THEN 1 ELSE IF n < 0 THEN -1 ELSE 0, den |-> 0]
    ELSE LET g == GCD(Abs(n), d)
         IN  [num |-> (IF n < 0 THEN -(Abs(n) \div g) ELSE n \div g), den |-> d \div g]

ZeroRat == [num |-> 0, den |-> 1]

\* int(f): conversion of a float64 to int truncates toward zero
Trunc(r) == IF r.num < 0 THEN -((-r.num) \div r.den) ELSE r.num \div r.den

(***************************************************************************)
(* Stats, Varz, Connz, Rates.                                              *)
(***************************************************************************)
MiB == 1048576

MkVarz(cpu, mem, im, om, ib, ob) ==
    [CPU |-> cpu, Mem |-> mem, InMsgs |-> im, OutMsgs |-> om, InBytes |-> ib, OutBytes |-> ob]

ZeroVarz == MkVarz(0, 0, 0, 0, 0, 0)

ZeroConnz == [NumConns |-> 0]

ZeroRates ==
    [InMsgsRate |-> ZeroRat, OutMsgsRate |-> ZeroRat,
     InBytesRate |-> ZeroRat, OutBytesRate |-> ZeroRat]

\* &Stats{Varz: &gnatsd.Varz{}, Connz: &gnatsd.Connz{}, Rates: &Rates{}}
NewStats == [Varz |-> ZeroVarz, Connz |-> ZeroConnz, Rates |-> ZeroRates]

\* the raw counters kept between cycles (inMsgsLastVal, ...)
ZeroLast == [InMsgs |-> 0, OutMsgs |-> 0, InBytes |-> 0, OutBytes |-> 0]

\* the results of Request: an error, or the decoded answer
ReqError == [err |-> TRUE]

Answer(v) == [err |-> FALSE, val |-> v]

Answers(samples) == {Answer(v) : v \in samples}

\* answers of /varz and /connz explored by SpecSampler
VarzSamples ==
    { MkVarz(5, 3 * MiB + 17, 500, 300, 2000, 1200),
      MkVarz(37, 5 * MiB, 1000, 900, 6000, 2400) }

ConnzSamples == { [NumConns |-> 2] }

\* answers explored by SpecHist: the k-th cycle reports k connections and k * k
\* messages received, so that no two cycles show the same rate
HistVarz(k) == MkVarz(1, k * MiB, k * k, 20 * k, 30 * k, 40 * k)

HistConnz(k) == [NumConns |-> k]

\* extra ticks a cycle takes beyond the configured delay
Jitters == {0, 1}

(***************************************************************************)
(* Strings, sort keys, events.                                             *)
(***************************************************************************)
\* string(rune(0)): what string(e.Ch) yields for an event without a character
NUL == "NUL"

SortByCid == <<"c", "i", "d">>
SortBySubs == <<"s", "u", "b", "s">>
SortByOutMsgs == <<"m", "s", "g", "s", "_", "t", "o">>
SortByInMsgs == <<"m", "s", "g", "s", "_", "f", "r", "o", "m">>
SortByOutBytes == <<"b", "y", "t", "e", "s", "_", "t", "o">>
SortByInBytes == <<"b", "y", "t", "e", "s", "_", "f", "r", "o", "m">>

SortKeys ==
    {SortByCid, SortBySubs, SortByOutMsgs, SortByInMsgs, SortByOutBytes, SortByInBytes}

\* opts["sort"] when main left it unset: no buffer, a sequence of single
\* characters, equals it
NoSort == <<"<nil>">>

KeyEvt(ch) == [Type |-> "key", Key |-> "none", Ch |-> ch, Height |-> 0]
SpecialEvt(k) == [Type |-> "key", Key |-> k, Ch |-> NUL, Height |-> 0]
ResizeEvt(h) == [Type |-> "resize", Key |-> "none", Ch |-> NUL, Height |-> h]

EnterEvt == SpecialEvt("enter")
SpaceEvt == SpecialEvt("space")

IsEnter(e) == e.Type = "key" /\ e.Key = "enter"
IsBackspace(e) == e.Type = "key" /\ e.Key \in {"backspace", "backspace2"}
IsChar(e, c) == e.Type = "key" /\ e.Ch = c
IsSpace(e) == e.Type = "key" /\ e.Key = "space"
IsResize(e) == e.Type = "resize"

\* characters typed in SpecInput
InputChars == {"c", "i", "d", "o", "n", "q", "2", "5", "0"}

\* special keys pressed in SpecInput
InputKeys == {"enter", "space", "backspace", "backspace2", "esc"}

\* terminal heights: at start, and reported by resize events
InitHeight == 42
ResizeHeights == {21}
InputResizeHeights == {InitHeight}
ViewResizeHeights == {21, 30}

InputEvents ==
    {KeyEvt(c) : c \in InputChars} \cup {SpecialEvt(k) : k \in InputKeys}
        \cup {ResizeEvt(h) : h \in InputResizeHeights}

SamplerEvents == {KeyEvt("q")} \cup {ResizeEvt(h) : h \in ResizeHeights}

(***************************************************************************)
(* fmt.Sscanf(optionBuf, "%d", &n)                                         *)
(***************************************************************************)
Digits == {"0", "1", "2", "3", "4", "5", "6", "7", "8", "9"}

DigitVal(c) ==
    CASE c = "0" -> 0 [] c = "1" -> 1 [] c = "2" -> 2 [] c = "3" -> 3 [] c = "4" -> 4
      [] c = "5" -> 5 [] c = "6" -> 6 [] c = "7" -> 7 [] c = "8" -> 8 [] c = "9" -> 9

\* the longest prefix of digits of s, as a number, with its length
RECURSIVE ScanDigits(_, _, _)
ScanDigits(s, acc, n) ==
    IF s # <<>> /\ Head(s) \in Digits
    THEN ScanDigits(Tail(s), 10 * acc + DigitVal(Head(s)), n + 1)
    ELSE [val |-> acc, len |-> n]

RECURSIVE SkipSpace(_)
SkipSpace(s) == IF s # <<>> /\ Head(s) = " " THEN SkipSpace(Tail(s)) ELSE s

\* %d: leading spaces skipped, an optional sign, then at least one digit;
\* what follows the digits is left unread and is no error
Sscanf(buf) ==
    LET s    == SkipSpace(buf)
        neg  == s # <<>> /\ Head(s) = "-"
        body == IF s # <<>> /\ Head(s) \in {"+", "-"} THEN Tail(s) ELSE s
        d    == ScanDigits(body, 0, 0)
    IN  IF d.len = 0 THEN [ok |-> FALSE, n |-> 0]
        ELSE [ok |-> TRUE, n |-> IF neg THEN -d.val ELSE d.val]

(***************************************************************************)
(* State.                                                                  *)
(***************************************************************************)
VARIABLES
    \* monitorStats
    mPc,          \* "sleep" (top of the loop), "varz", "connz", "send" (blocked on statsCh)
    first,        \* no successful cycle yet
    pollTime,     \* time of the last successful cycle (of the start, before one)
    lastVal,      \* raw counters of the last successful cycle
    rates,        \* inMsgsRate, outMsgsRate, inBytesRate, outBytesRate
    stats,        \* the Stats of the cycle in progress
    clock,        \* wall clock, in ticks
    cycles,       \* cycles started
    history,      \* one entry per snapshot handed to statsCh, in order
    \* the update goroutine and the widgets
    uPc,          \* "recv" (blocked on statsCh), "update", "redraw" (blocked on redraw)
    uStats,       \* the Stats received
    received,     \* every Stats taken from statsCh, in order
    par,          \* par.Text: what the top report was generated from
    series,       \* the Data of the six charts
    \* the foreground loop
    fgPc,         \* "select", "render", "write" (inside an assignment to opts)
    wr,           \* the assignment to opts in progress
    waitingSortOption,
    waitingLimitOption,
    optionBuf,
    viewMode,
    opts,         \* the options map
    heights,      \* heights of the dashboard panels
    termH,        \* ui.TermHeight()
    exited,       \* os.Exit was called
    nEvents,      \* events taken from evt
    \* helper goroutines
    gSleeping,    \* "invalid order" goroutines before waitingSortOption = false
    gClearing,    \* "invalid order" goroutines before optionBuf = ""
    redrawPending, \* resize goroutines blocked on redraw <- struct{}{}
    readers       \* the goroutines inside a read of opts

samplerVars == <<mPc, first, pollTime, lastVal, rates, stats, clock, cycles, history>>
updateVars == <<uPc, uStats, received, par, series>>
inputVars ==
    <<waitingSortOption, waitingLimitOption, optionBuf, viewMode, opts, heights, termH,
      exited, nEvents, gSleeping>>
raceVars == <<wr, readers>>
vars == <<samplerVars, updateVars, fgPc, inputVars, gClearing, redrawPending, raceVars>>

(***************************************************************************)
(* Construction: main and the part of StartUI before its loop.             *)
(***************************************************************************)
\* the heights StartUI and the resize handler give the dashboard panels
PanelHeights(h) ==
    LET boxHeight == h \div 3
    IN  [cpu |-> h \div 7, conns |-> h \div 5, box |-> boxHeight,
         line |-> boxHeight - boxHeight \div 7]

\* the Data the charts are built with; the in-msgs sparkline is copied into its
\* box before its Data is set, so that box starts without a sample
InitSeries ==
    [conns |-> <<0>>, mem |-> <<0>>, inMsgs |-> <<>>, inBytes |-> <<0>>,
     outMsgs |-> <<0>>, outBytes |-> <<0>>]

\* a variant that formats an empty Stats whatever it is given
GenerateParagraphStale(o, st) == [stats |-> NewStats, sort |-> o.sort]

\* generateParagraph: the report is a function of the stats and of opts["sort"]
GenerateParagraph(o, st) == [stats |-> st, sort |-> o.sort]

\* opts as main builds it: -sort is kept only when it names a supported key
MainOpts(sortBy, delay) ==
    [host |-> "127.0.0.1", port |-> 8222, conns |-> 1024, delay |-> delay,
     sort |-> IF sortBy \in SortKeys THEN sortBy ELSE NoSort]

\* no assignment to opts is in progress
NoWrite == [active |-> FALSE, key |-> "none", opts |-> <<>>]

InitWith(sortFlags, delays) ==
    /\ mPc = "sleep"
    /\ first = TRUE
    /\ pollTime = 0
    /\ lastVal = ZeroLast
    /\ rates = ZeroRates
    /\ stats = NewStats
    /\ clock = 0
    /\ cycles = 0
    /\ history = <<>>
    /\ uPc = "recv"
    /\ uStats = NewStats
    /\ received = <<>>
    /\ \E sortBy \in sortFlags, d \in delays :
          /\ opts = MainOpts(sortBy, d)
          /\ par = GenerateParagraph(opts, NewStats)
    /\ series = InitSeries
    /\ fgPc = "select"
    /\ waitingSortOption = FALSE
    /\ waitingLimitOption = FALSE
    /\ optionBuf = <<>>
    /\ viewMode = "top"
    /\ heights = PanelHeights(InitHeight)
    /\ termH = InitHeight
    /\ exited = FALSE
    /\ nEvents = 0
    /\ gSleeping = 0
    /\ gClearing = 0
    /\ redrawPending = 0
    /\ wr = NoWrite
    /\ readers = {}

(***************************************************************************)
(* monitorStats.                                                           *)
(***************************************************************************)
\* the four raw counters of a Varz
Counters(v) ==
    [InMsgs |-> v.InMsgs, OutMsgs |-> v.OutMsgs, InBytes |-> v.InBytes,
     OutBytes |-> v.OutBytes]

\* inMsgsDelta = inMsgsVal - inMsgsLastVal
Delta(val, last) == val - last

\* tdelta := now.Sub(pollTime)
Tdelta(now, poll) == now - poll

\* float64(delta) / tdelta.Seconds()
RateOf(delta, tdelta) == Rat(delta * TicksPerSec, tdelta)

\* a variant that computes the rates on the first successful cycle too
NextRatesAlways(isFirst, old, v, last, tdelta) ==
    [InMsgsRate   |-> RateOf(Delta(v.InMsgs, last.InMsgs), tdelta),
     OutMsgsRate  |-> RateOf(Delta(v.OutMsgs, last.OutMsgs), tdelta),
     InBytesRate  |-> RateOf(Delta(v.InBytes, last.InBytes), tdelta),
     OutBytesRate |-> RateOf(Delta(v.OutBytes, last.OutBytes), tdelta)]

\* the rate variables after "Calculate rates but the first time"
NextRates(isFirst, old, v, last, tdelta) ==
    IF isFirst THEN old
    ELSE [InMsgsRate   |-> RateOf(Delta(v.InMsgs, last.InMsgs), tdelta),
          OutMsgsRate  |-> RateOf(Delta(v.OutMsgs, last.OutMsgs), tdelta),
          InBytesRate  |-> RateOf(Delta(v.InBytes, last.InBytes), tdelta),
          OutBytesRate |-> RateOf(Delta(v.OutBytes, last.OutBytes), tdelta)]

\* a variant that never moves the last-seen counters
NextLastValKeep(v, last) == last

\* inMsgsLastVal = inMsgsVal, ... on a successful cycle
NextLastVal(v, last) == Counters(v)

\* a variant that never moves pollTime
NextPollTimeStale(now, poll) == poll

\* pollTime = now on a successful cycle
NextPollTime(now, poll) == now

\* a variant in which a failed fetch continues without the send
OnFetchErrorSkip == "sleep"

\* where a failed fetch leaves the loop: statsCh <- stats, then continue
OnFetchError == "send"

\* one entry of history
Entry(ok, st, at) == [ok |-> ok, stats |-> st, at |-> at]

\* time.Sleep(delay) and the new Stats
Sleep(maxCycles, jitters) ==
    /\ ~exited
    /\ mPc = "sleep"
    /\ cycles < maxCycles
    /\ IF opts.delay \in Int
       THEN /\ \E j \in jitters : clock' = clock + opts.delay * TicksPerSec + j
            /\ stats' = NewStats
            /\ mPc' = "varz"
            /\ cycles' = cycles + 1
            /\ UNCHANGED exited
       ELSE /\ exited' = TRUE
            /\ UNCHANGED <<clock, stats, mPc, cycles>>
    /\ readers' = readers \ {"sampler"}
    /\ UNCHANGED <<first, pollTime, lastVal, rates, history>>
    /\ UNCHANGED <<updateVars, fgPc, gClearing, redrawPending, wr>>
    /\ UNCHANGED <<waitingSortOption, waitingLimitOption, optionBuf, viewMode, opts,
                   heights, termH, nEvents, gSleeping>>

\* Request("/varz", opts)
GetVarz(answers) ==
    /\ ~exited
    /\ mPc = "varz"
    /\ \E r \in answers :
          IF r.err
          THEN /\ mPc' = OnFetchError
               /\ history' = IF mPc' = "send" THEN Append(history, Entry(FALSE, stats, clock))
                             ELSE history
               /\ UNCHANGED stats
          ELSE /\ stats' = [stats EXCEPT !.Varz = r.val]
               /\ mPc' = "connz"
               /\ UNCHANGED history
    /\ readers' = readers \ {"sampler"}
    /\ UNCHANGED <<first, pollTime, lastVal, rates, clock, cycles>>
    /\ UNCHANGED <<updateVars, fgPc, inputVars, gClearing, redrawPending, wr>>

\* Request("/connz", opts) and, when it succeeds, the rest of the cycle up to
\* the send
GetConnz(answers) ==
    /\ ~exited
    /\ mPc = "connz"
    /\ \E r \in answers :
          IF r.err
          THEN /\ mPc' = OnFetchError
               /\ history' = IF mPc' = "send" THEN Append(history, Entry(FALSE, stats, clock))
                             ELSE history
               /\ UNCHANGED <<stats, first, pollTime, lastVal, rates>>
          ELSE LET now    == clock
                   tdelta == Tdelta(now, pollTime)
                   newR   == NextRates(first, rates, stats.Varz, lastVal, tdelta)
                   st     == [Varz |-> stats.Varz, Connz |-> r.val, Rates |-> newR]
               IN  /\ lastVal' = NextLastVal(stats.Varz, lastVal)
                   /\ pollTime' = NextPollTime(now, pollTime)
                   /\ first' = FALSE
                   /\ rates' = newR
                   /\ stats' = st
                   /\ mPc' = "send"
                   /\ history' = Append(history, Entry(TRUE, st, now))
    /\ readers' = readers \ {"sampler"}
    /\ UNCHANGED <<clock, cycles>>
    /\ UNCHANGED <<updateVars, fgPc, inputVars, gClearing, redrawPending, wr>>

(***************************************************************************)
(* The update goroutine.                                                   *)
(***************************************************************************)
\* a variant with a channel that does not make the sender wait: a snapshot sent
\* while the update goroutine is busy is lost
HandoffDropping ==
    /\ ~exited
    /\ mPc = "send"
    /\ mPc' = "sleep"
    /\ IF uPc = "recv"
       THEN uStats' = stats /\ received' = Append(received, stats) /\ uPc' = "update"
       ELSE UNCHANGED <<uStats, received, uPc>>
    /\ UNCHANGED <<first, pollTime, lastVal, rates, stats, clock, cycles, history>>
    /\ UNCHANGED <<par, series, fgPc, inputVars, gClearing, redrawPending, raceVars>>

\* statsCh <- stats meets stats := <-statsCh
Handoff ==
    /\ ~exited
    /\ mPc = "send"
    /\ uPc = "recv"
    /\ uStats' = stats
    /\ received' = Append(received, stats)
    /\ uPc' = "update"
    /\ mPc' = "sleep"
    /\ UNCHANGED <<first, pollTime, lastVal, rates, stats, clock, cycles, history>>
    /\ UNCHANGED <<par, series, fgPc, inputVars, gClearing, redrawPending, raceVars>>

\* the length test of the trim
HistCap == 150

\* the upper index of the slice the trim keeps
TrimHigh == 150

\* a variant whose length test is off by one
PushLate(data, v) ==
    LET a == Append(data, v)
    IN  IF Len(a) > HistCap + 1 THEN SubSeq(a, 2, TrimHigh) ELSE a

\* Data = append(Data, v); if len(Data) > 150 { Data = Data[1:150] }
Push(data, v) ==
    LET a == Append(data, v)
    IN  IF Len(a) > HistCap THEN SubSeq(a, 2, TrimHigh) ELSE a

\* a variant in which the update goroutine paints by itself
SignalPaints == "render"

\* where the update goroutine goes after the widgets: redraw <- struct{}{}
Signal == "redraw"

\* the text and the charts after one snapshot
UpdateWidgets ==
    /\ ~exited
    /\ uPc = "update"
    /\ par' = GenerateParagraph(opts, uStats)
    /\ series' =
          [conns    |-> Push(series.conns, uStats.Connz.NumConns),
           mem      |-> Push(series.mem, (uStats.Varz.Mem \div 1024) \div 1024),
           inMsgs   |-> Push(series.inMsgs, Trunc(uStats.Rates.InMsgsRate)),
           inBytes  |-> Push(series.inBytes, Trunc(uStats.Rates.InBytesRate)),
           outMsgs  |-> Push(series.outMsgs, Trunc(uStats.Rates.OutMsgsRate)),
           outBytes |-> Push(series.outBytes, Trunc(uStats.Rates.OutBytesRate))]
    /\ uPc' = Signal
    /\ readers' = readers \ {"update"}
    /\ UNCHANGED <<uStats, received, samplerVars, fgPc, inputVars, gClearing,
                   redrawPending, wr>>

(***************************************************************************)
(* The foreground loop: the redraw case.                                   *)
(***************************************************************************)
\* case <-redraw, the sender being the update goroutine
RedrawFromUpdate ==
    /\ ~exited
    /\ fgPc = "select"
    /\ uPc = "redraw"
    /\ uPc' = "recv"
    /\ fgPc' = "render"
    /\ UNCHANGED <<uStats, received, par, series, samplerVars, inputVars, gClearing,
                   redrawPending, raceVars>>

\* case <-redraw, the sender being a resize goroutine
RedrawFromResize ==
    /\ ~exited
    /\ fgPc = "select"
    /\ redrawPending > 0
    /\ redrawPending' = redrawPending - 1
    /\ fgPc' = "render"
    /\ UNCHANGED <<updateVars, samplerVars, inputVars, gClearing, raceVars>>

\* ui.Render(ui.Body)
Render ==
    /\ ~exited
    /\ fgPc = "render"
    /\ fgPc' = "select"
    /\ UNCHANGED <<updateVars, samplerVars, inputVars, gClearing, redrawPending, raceVars>>

(***************************************************************************)
(* The foreground loop: the event case.  The handler is a function from    *)
(* the state it reads and the event to the state it leaves; spawn and      *)
(* redraw count the goroutines it starts, done is its "continue".          *)
(***************************************************************************)
UIState ==
    [sort |-> waitingSortOption, limit |-> waitingLimitOption, buf |-> optionBuf,
     opts |-> opts, view |-> viewMode, heights |-> heights, termH |-> termH,
     exit |-> FALSE, done |-> FALSE, spawn |-> 0, redraw |-> 0]

\* the terminal has its new size when the resize event is delivered
Arrive(s, e) == IF IsResize(e) THEN [s EXCEPT !.termH = e.Height] ELSE s

\* optionBuf = optionBuf[:len(optionBuf)-1] on a backspace with a non-empty
\* buffer, optionBuf += string(e.Ch) on every other event
EditBuf(buf, e) ==
    IF IsBackspace(e) /\ Len(buf) > 0
    THEN SubSeq(buf, 1, Len(buf) - 1)
    ELSE Append(buf, e.Ch)

\* a variant that falls back to the default key on a buffer that is no key
PromptSortFallback(s, e) ==
    IF s.done \/ ~s.sort THEN s
    ELSE IF IsEnter(e)
         THEN [s EXCEPT !.opts.sort = IF s.buf \in SortKeys THEN s.buf ELSE SortByCid,
                        !.sort = FALSE, !.buf = <<>>, !.done = TRUE]
         ELSE [s EXCEPT !.buf = EditBuf(s.buf, e)]

\* if waitingSortOption { ... }
PromptSort(s, e) ==
    IF s.done \/ ~s.sort THEN s
    ELSE IF IsEnter(e)
         THEN IF s.buf \in SortKeys
              THEN [s EXCEPT !.opts.sort = s.buf, !.sort = FALSE, !.buf = <<>>,
                             !.done = TRUE]
              ELSE [s EXCEPT !.spawn = @ + 1, !.done = TRUE]
         ELSE [s EXCEPT !.buf = EditBuf(s.buf, e)]

\* a variant that stores n without looking at the error of Sscanf
PromptLimitUnchecked(s, e) ==
    IF s.done \/ ~s.limit THEN s
    ELSE IF IsEnter(e)
         THEN [s EXCEPT !.opts.conns = Sscanf(s.buf).n,
                        !.limit = FALSE, !.buf = <<>>, !.done = TRUE]
         ELSE [s EXCEPT !.buf = EditBuf(s.buf, e)]

\* if waitingLimitOption { ... }
PromptLimit(s, e) ==
    IF s.done \/ ~s.limit THEN s
    ELSE IF IsEnter(e)
         THEN LET r == Sscanf(s.buf)
              IN  [s EXCEPT !.opts.conns = IF r.ok THEN r.n ELSE @,
                            !.limit = FALSE, !.buf = <<>>, !.done = TRUE]
         ELSE [s EXCEPT !.buf = EditBuf(s.buf, e)]

\* if e.Ch == 'q' { cleanExit() }
CmdQuit(s, e) ==
    IF s.done \/ s.exit THEN s
    ELSE IF IsChar(e, "q") THEN [s EXCEPT !.exit = TRUE] ELSE s

\* a variant without the test of waitingLimitOption
CmdSortUnguarded(s, e) ==
    IF s.done \/ s.exit THEN s
    ELSE IF IsChar(e, "o") THEN [s EXCEPT !.sort = TRUE] ELSE s

\* if e.Ch == 'o' && !waitingLimitOption { waitingSortOption = true }
CmdSort(s, e) ==
    IF s.done \/ s.exit THEN s
    ELSE IF IsChar(e, "o") /\ ~s.limit THEN [s EXCEPT !.sort = TRUE] ELSE s

\* if e.Ch == 'n' && !waitingSortOption { waitingLimitOption = true }
CmdLimit(s, e) ==
    IF s.done \/ s.exit THEN s
    ELSE IF IsChar(e, "n") /\ ~s.sort THEN [s EXCEPT !.limit = TRUE] ELSE s

\* if e.Key == ui.KeySpace { switch viewMode ... }
CmdToggle(s, e) ==
    IF s.done \/ s.exit \/ ~IsSpace(e) THEN s
    ELSE IF s.view = "top"
         THEN [s EXCEPT !.view = "dashboard", !.sort = FALSE, !.limit = FALSE]
         ELSE IF s.view = "dashboard" THEN [s EXCEPT !.view = "top"] ELSE s

\* a variant that gives the panels their heights in either view
CmdResizeAnyView(s, e) ==
    IF s.done \/ s.exit \/ ~IsResize(e) THEN s
    ELSE [s EXCEPT !.heights = PanelHeights(s.termH), !.redraw = @ + 1]

\* if e.Type == ui.EventResize { ... go func() { redraw <- struct{}{} }() }
CmdResize(s, e) ==
    IF s.done \/ s.exit \/ ~IsResize(e) THEN s
    ELSE [s EXCEPT !.heights = IF s.view = "dashboard" THEN PanelHeights(s.termH) ELSE @,
                   !.redraw = @ + 1]

\* the two prompt blocks
Prompts(s, e) == PromptLimit(PromptSort(s, e), e)

\* the commands that follow the prompt blocks
Commands(s, e) == CmdResize(CmdToggle(CmdLimit(CmdSort(CmdQuit(s, e), e), e), e), e)

\* waitingSortOption = false, by an "invalid order" goroutine
ClearFlag(s) == [s EXCEPT !.sort = FALSE]

\* the state the handler leaves becomes the state of the program
Commit(s) ==
    /\ waitingSortOption' = s.sort
    /\ waitingLimitOption' = s.limit
    /\ optionBuf' = s.buf
    /\ opts' = s.opts
    /\ viewMode' = s.view
    /\ heights' = s.heights
    /\ termH' = s.termH
    /\ exited' = s.exit
    /\ redrawPending' = redrawPending + s.redraw
    /\ nEvents' = nEvents + 1

\* case e := <-evt, the handler running undisturbed
HandleEvent(e, maxEvents) ==
    /\ ~exited
    /\ fgPc = "select"
    /\ nEvents < maxEvents
    /\ LET s == Commands(Prompts(Arrive(UIState, e), e), e)
       IN  /\ gSleeping + gClearing + s.spawn <= MaxInvalid
           /\ redrawPending + s.redraw <= MaxResize
           /\ Commit(s)
           /\ gSleeping' = gSleeping + s.spawn
    /\ UNCHANGED <<fgPc, gClearing, samplerVars, updateVars, raceVars>>

\* case e := <-evt, an "invalid order" goroutine setting waitingSortOption to
\* false between the prompt blocks and the commands
HandleEventRace(e, maxEvents) ==
    /\ ~exited
    /\ fgPc = "select"
    /\ nEvents < maxEvents
    /\ gSleeping > 0
    /\ LET p == Prompts(Arrive(UIState, e), e)
           s == Commands(ClearFlag(p), e)
       IN  /\ ~p.done
           /\ redrawPending + s.redraw <= MaxResize
           /\ Commit(s)
           /\ gSleeping' = gSleeping - 1
           /\ gClearing' = gClearing + 1
    /\ UNCHANGED <<fgPc, samplerVars, updateVars, raceVars>>

(***************************************************************************)
(* The "invalid order" goroutine, after its sleep.                         *)
(***************************************************************************)
\* waitingSortOption = false
CleanupFlag ==
    /\ ~exited
    /\ gSleeping > 0
    /\ waitingSortOption' = FALSE
    /\ gSleeping' = gSleeping - 1
    /\ gClearing' = gClearing + 1
    /\ UNCHANGED <<waitingLimitOption, optionBuf, viewMode, opts, heights, termH, exited,
                   nEvents, fgPc, redrawPending, samplerVars, updateVars, raceVars>>

\* refreshOptionHeader(); optionBuf = ""
CleanupBuf ==
    /\ ~exited
    /\ gClearing > 0
    /\ optionBuf' = <<>>
    /\ gClearing' = gClearing - 1
    /\ UNCHANGED <<waitingSortOption, waitingLimitOption, viewMode, opts, heights, termH,
                   exited, nEvents, gSleeping, fgPc, redrawPending, samplerVars, updateVars,
                   raceVars>>

(***************************************************************************)
(* Accesses to the options map.  opts is one Go map shared by the three    *)
(* goroutines without a lock: the foreground loop assigns to it, the       *)
(* sampler and generateParagraph read it.  An access takes time: a         *)
(* goroutine is inside it from its Begin step to the step that completes   *)
(* the operation.                                                          *)
(***************************************************************************)
\* the handler of e, entered in state s, reaches opts["sort"] = sortOpt or
\* opts["conns"] = n
WritesOpts(s, e) ==
    /\ IsEnter(e)
    /\ \/ s.sort /\ s.buf \in SortKeys
       \/ ~s.sort /\ s.limit /\ Sscanf(s.buf).ok

\* case e := <-evt, up to the inside of the assignment to opts
BeginWrite(e, maxEvents) ==
    /\ ~exited
    /\ fgPc = "select"
    /\ nEvents < maxEvents
    /\ WritesOpts(UIState, e)
    /\ wr' = [active |-> TRUE,
              key    |-> IF waitingSortOption THEN "sort" ELSE "conns",
              opts   |-> Prompts(Arrive(UIState, e), e).opts]
    /\ fgPc' = "write"
    /\ UNCHANGED <<samplerVars, updateVars, inputVars, gClearing, redrawPending, readers>>

\* the assignment done, the rest of the handler: the flag of the prompt set to
\* false, optionBuf = "", continue
EndWrite ==
    /\ ~exited
    /\ fgPc = "write"
    /\ opts' = wr.opts
    /\ IF wr.key = "sort"
       THEN waitingSortOption' = FALSE /\ UNCHANGED waitingLimitOption
       ELSE waitingLimitOption' = FALSE /\ UNCHANGED waitingSortOption
    /\ optionBuf' = <<>>
    /\ nEvents' = nEvents + 1
    /\ fgPc' = "select"
    /\ wr' = NoWrite
    /\ UNCHANGED <<viewMode, heights, termH, exited, gSleeping, gClearing, redrawPending,
                   readers, samplerVars, updateVars>>

\* goroutine g enters a read of opts: the sampler opts["delay"] at the top of
\* its loop and the options of the request inside Request, the update
\* goroutine opts["sort"] inside generateParagraph
BeginRead(g, maxCycles) ==
    /\ ~exited
    /\ g \notin readers
    /\ \/ g = "sampler" /\ mPc = "sleep" /\ cycles < maxCycles
       \/ g = "sampler" /\ mPc \in {"varz", "connz"}
       \/ g = "update" /\ uPc = "update"
    /\ readers' = readers \cup {g}
    /\ UNCHANGED <<samplerVars, updateVars, fgPc, inputVars, gClearing, redrawPending, wr>>

\* a read of the map meeting an assignment in progress: the runtime may end the
\* process ("concurrent map read and map write")
MapFault ==
    /\ ~exited
    /\ wr.active
    /\ readers # {}
    /\ exited' = TRUE
    /\ UNCHANGED <<waitingSortOption, waitingLimitOption, optionBuf, viewMode, opts,
                   heights, termH, nEvents, gSleeping, gClearing, redrawPending, fgPc,
                   samplerVars, updateVars, raceVars>>

(***************************************************************************)
(* Specifications.                                                         *)
(***************************************************************************)
\* the sampler, the update goroutine and the foreground loop, with the events
\* that end the process or repaint
InitSampler == InitWith({SortByCid}, {1})

NextSampler ==
    \/ Sleep(MaxCycles, Jitters)
    \/ GetVarz(Answers(VarzSamples) \cup {ReqError})
    \/ GetConnz(Answers(ConnzSamples) \cup {ReqError})
    \/ Handoff
    \/ UpdateWidgets
    \/ RedrawFromUpdate
    \/ RedrawFromResize
    \/ Render
    \/ \E e \in SamplerEvents : HandleEvent(e, MaxSamplerEvents)

SpecSampler == InitSampler /\ [][NextSampler]_vars

\* the same goroutines, each fetch failing or giving the one answer of its
\* cycle; every goroutine that can run is scheduled, and select takes each
\* ready case again and again
NextPublish ==
    \/ Sleep(MaxCycles, {0})
    \/ GetVarz({Answer(HistVarz(cycles)), ReqError})
    \/ GetConnz({Answer(HistConnz(cycles)), ReqError})
    \/ Handoff
    \/ UpdateWidgets
    \/ RedrawFromUpdate
    \/ RedrawFromResize
    \/ Render
    \/ \E e \in SamplerEvents : HandleEvent(e, MaxSamplerEvents)

FairSpecPublish ==
    /\ InitSampler
    /\ [][NextPublish]_vars
    /\ WF_vars(GetVarz({Answer(HistVarz(cycles)), ReqError}))
    /\ WF_vars(GetConnz({Answer(HistConnz(cycles)), ReqError}))
    /\ WF_vars(Handoff)
    /\ WF_vars(UpdateWidgets)
    /\ WF_vars(Render)
    /\ SF_vars(RedrawFromUpdate)
    /\ SF_vars(RedrawFromResize)

\* the same with the view toggled: the update goroutine under either view
UpdateEvents == SamplerEvents \cup {SpaceEvt}

NextUpdate ==
    \/ Sleep(MaxCycles, {0})
    \/ GetVarz({Answer(HistVarz(cycles)), ReqError})
    \/ GetConnz({Answer(HistConnz(cycles)), ReqError})
    \/ Handoff
    \/ UpdateWidgets
    \/ RedrawFromUpdate
    \/ RedrawFromResize
    \/ Render
    \/ \E e \in UpdateEvents : HandleEvent(e, MaxSamplerEvents)

FairSpecUpdate ==
    /\ InitSampler
    /\ [][NextUpdate]_vars
    /\ WF_vars(GetVarz({Answer(HistVarz(cycles)), ReqError}))
    /\ WF_vars(GetConnz({Answer(HistConnz(cycles)), ReqError}))
    /\ WF_vars(Handoff)
    /\ WF_vars(UpdateWidgets)
    /\ WF_vars(Render)
    /\ SF_vars(RedrawFromUpdate)
    /\ SF_vars(RedrawFromResize)

\* a long run of successful cycles, the k-th reporting the number k
InitHist == InitWith({SortByCid}, {1})

NextHist ==
    \/ Sleep(MaxHistCycles, {0})
    \/ GetVarz({Answer(HistVarz(cycles))})
    \/ GetConnz({Answer(HistConnz(cycles))})
    \/ Handoff
    \/ UpdateWidgets
    \/ RedrawFromUpdate
    \/ Render

SpecHist == InitHist /\ [][NextHist]_vars

\* the foreground loop under key and resize events, with its goroutines
InitInput == InitWith({SortBySubs, <<"x">>}, {1})

NextInput ==
    \/ \E e \in InputEvents : HandleEvent(e, MaxEvents)
    \/ \E e \in InputEvents : HandleEventRace(e, MaxEvents)
    \/ CleanupFlag
    \/ CleanupBuf
    \/ RedrawFromResize
    \/ Render

SpecInput == InitInput /\ [][NextInput]_vars

\* the foreground loop under the keys that open and close the prompts and
\* toggle the view, and under resizes to two other heights
ViewEvents ==
    {KeyEvt(c) : c \in {"o", "n", "c"}} \cup {EnterEvt, SpaceEvt}
        \cup {ResizeEvt(h) : h \in ViewResizeHeights}

InitView == InitWith({SortByCid}, {1})

NextView ==
    \/ \E e \in ViewEvents : HandleEvent(e, MaxEvents)
    \/ \E e \in ViewEvents : HandleEventRace(e, MaxEvents)
    \/ CleanupFlag
    \/ CleanupBuf
    \/ RedrawFromResize
    \/ Render

SpecView == InitView /\ [][NextView]_vars

\* the three goroutines with their accesses to opts drawn out: a limit and a
\* sort key are typed while the sampler runs one cycle
RaceEvents == {KeyEvt(c) : c \in {"n", "2", "o", "c", "i", "d"}} \cup {EnterEvt}

InitRace == InitWith({SortBySubs}, {1})

NextRace ==
    \/ Sleep(MaxRaceCycles, {0})
    \/ GetVarz({Answer(HistVarz(cycles)), ReqError})
    \/ GetConnz({Answer(HistConnz(cycles)), ReqError})
    \/ Handoff
    \/ UpdateWidgets
    \/ RedrawFromUpdate
    \/ Render
    \/ \E e \in RaceEvents : ~WritesOpts(UIState, e) /\ HandleEvent(e, MaxEvents)
    \/ \E e \in RaceEvents : BeginWrite(e, MaxEvents)
    \/ EndWrite
    \/ \E g \in {"sampler", "update"} : BeginRead(g, MaxRaceCycles)
    \/ MapFault
    \/ CleanupFlag
    \/ CleanupBuf

SpecRace == InitRace /\ [][NextRace]_vars

\* the whole program: every goroutine, under the keys that change the mode, the
\* view and the options
MainEvents ==
    {KeyEvt(c) : c \in {"o", "n", "q", "2"}}
        \cup {EnterEvt, SpaceEvt} \cup {ResizeEvt(h) : h \in ResizeHeights}

Init == InitWith({SortByCid}, {1})

Next ==
    \/ Sleep(MaxMainCycles, {0})
    \/ GetVarz(Answers(VarzSamples) \cup {ReqError})
    \/ GetConnz(Answers(ConnzSamples) \cup {ReqError})
    \/ Handoff
    \/ UpdateWidgets
    \/ RedrawFromUpdate
    \/ RedrawFromResize
    \/ Render
    \/ \E e \in MainEvents : HandleEvent(e, MaxMainEvents)
    \/ \E e \in MainEvents : HandleEventRace(e, MaxMainEvents)
    \/ CleanupFlag
    \/ CleanupBuf

Spec == Init /\ [][Next]_vars

(***************************************************************************)
(* Properties of the sampler.                                              *)
(***************************************************************************)
\* the index of the last successful cycle before the k-th, 0 when there is none
PrevOk(k) ==
    LET before == {j \in 1..(k - 1) : history[j].ok}
    IN  IF before = {} THEN 0 ELSE CHOOSE j \in before : \A i \in before : i <= j

\* the four rates between two successful cycles p and c of history
RatesBetween(p, c) ==
    LET el == c.at - p.at
        pv == p.stats.Varz
        cv == c.stats.Varz
    IN  [InMsgsRate   |-> Rat((cv.InMsgs - pv.InMsgs) * TicksPerSec, el),
         OutMsgsRate  |-> Rat((cv.OutMsgs - pv.OutMsgs) * TicksPerSec, el),
         InBytesRate  |-> Rat((cv.InBytes - pv.InBytes) * TicksPerSec, el),
         OutBytesRate |-> Rat((cv.OutBytes - pv.OutBytes) * TicksPerSec, el)]

\* C1: the first successful cycle publishes four zero rates; every later
\* successful cycle publishes, for each counter, its difference to the previous
\* successful cycle divided by the time measured since that cycle.
C1_RatesSinceLastSuccess ==
    \A k \in 1..Len(history) :
        history[k].ok =>
            IF PrevOk(k) = 0
            THEN history[k].stats.Rates = ZeroRates
            ELSE history[k].stats.Rates = RatesBetween(history[PrevOk(k)], history[k])

\* two successful cycles in a row, the second with a rate that is not zero and
\* after an interval that is not the configured delay
C1_Witness ==
    \E k \in 2..Len(history) :
        /\ history[k].ok
        /\ history[k - 1].ok
        /\ history[k].stats.Rates.InMsgsRate.num # 0
        /\ history[k].at - history[k - 1].at # opts.delay * TicksPerSec

\* C2: a cycle never ends the sampler: every cycle started puts exactly one
\* snapshot on statsCh, whatever its fetches did, and a cycle in progress leads
\* back to the top of the loop unless the process exits.
C2_SamplerKeepsPublishing ==
    /\ [](/\ mPc \in {"sleep", "varz", "connz", "send"}
          /\ cycles = Len(history) + (IF mPc \in {"varz", "connz"} THEN 1 ELSE 0))
    /\ (mPc # "sleep") ~> (mPc = "sleep" \/ exited)

\* three cycles published: a failed /varz, a failed /connz, a success
C2_Witness ==
    /\ Len(history) = 3
    /\ mPc = "sleep"
    /\ ~history[1].ok /\ history[1].stats.Varz = ZeroVarz
    /\ ~history[2].ok /\ history[2].stats.Varz # ZeroVarz
    /\ history[3].ok

\* the k-th cycle is the first successful one and follows failed cycles only
FirstOkAfterFailure(k) ==
    /\ k \in 2..Len(history)
    /\ history[k].ok
    /\ \A j \in 1..(k - 1) : ~history[j].ok

\* C3, as stated: the first successful cycle after an initial failed cycle
\* publishes InMsgsRate = delta / elapsed, the counter read over the interval
\* measured since the sampler started.
C3_RateAfterInitialFailure ==
    \A k \in 1..Len(history) :
        FirstOkAfterFailure(k) =>
            history[k].stats.Rates.InMsgsRate =
                Rat(history[k].stats.Varz.InMsgs * TicksPerSec, history[k].at)

\* C3, amended: the first successful cycle after an initial failed cycle is the
\* first successful cycle and publishes four zero rates; delta / elapsed is
\* first published by the successful cycle that follows it.
C3_ZeroAfterInitialFailure ==
    \A k \in 1..Len(history) :
        FirstOkAfterFailure(k) =>
            /\ history[k].stats.Rates = ZeroRates
            /\ \A m \in (k + 1)..Len(history) :
                  (history[m].ok /\ PrevOk(m) = k) =>
                      history[m].stats.Rates = RatesBetween(history[k], history[m])

\* cycle 1 failed, cycle 2 read InMsgs = 500, cycle 3 read 500 more 1.02 s later
C3_Witness ==
    /\ Len(history) = 3
    /\ FirstOkAfterFailure(2)
    /\ history[2].stats.Varz.InMsgs = 500
    /\ history[3].ok
    /\ history[3].stats.Varz.InMsgs = 1000
    /\ (history[3].at - history[2].at) * 50 = 51 * TicksPerSec
    /\ history[3].stats.Rates.InMsgsRate = Rat(500 * 50, 51)

(***************************************************************************)
(* Properties of the history series.                                       *)
(***************************************************************************)
\* snapshots the update goroutine has put into the charts
Updates ==
    Len(history) - (IF mPc = "send" THEN 1 ELSE 0) - (IF uPc = "update" THEN 1 ELSE 0)

\* C4: after the update of any snapshot each of the six series has at most 150
\* samples.
C4_SeriesBounded == \A f \in DOMAIN series : Len(series[f]) <= 150

\* 150 snapshots in: the connections series was trimmed, the in-msgs series,
\* which started empty, is full
C4_Witness ==
    /\ Updates = 150
    /\ Len(series.conns) = 149
    /\ Len(series.inMsgs) = 150

\* the last min(Len(all), 150) elements of all
Window(all) ==
    LET n == IF Len(all) < 150 THEN Len(all) ELSE 150
    IN  SubSeq(all, Len(all) - n + 1, Len(all))

\* the connection counts and the in-msgs rates of the snapshots put into the charts
FedConns == [k \in 1..Updates |-> history[k].stats.Connz.NumConns]
FedInMsgs == [k \in 1..Updates |-> Trunc(history[k].stats.Rates.InMsgsRate)]

\* C5: a series is the window of the most recent 150 samples, in order: what it
\* was built with followed by what was appended, less the oldest samples beyond
\* 150; the sample just appended is always its last.
C5_FifoWindow ==
    /\ series.conns = Window(InitSeries.conns \o FedConns)
    /\ series.inMsgs = Window(InitSeries.inMsgs \o FedInMsgs)

(***************************************************************************)
(* Properties of the input loop.                                           *)
(***************************************************************************)
PromptActive == waitingSortOption \/ waitingLimitOption

\* C6: waitingSortOption and waitingLimitOption are never both true.
C6_PromptsExclusive == ~(waitingSortOption /\ waitingLimitOption)

\* n, 2, o: the o pressed while the limit is being entered
C6_Witness ==
    /\ nEvents = 3
    /\ waitingLimitOption
    /\ ~waitingSortOption
    /\ optionBuf = <<"2", "o">>

\* Enter arriving while the sort prompt holds a buffer that is no supported key
InvalidSortEnter ==
    /\ waitingSortOption
    /\ optionBuf \notin SortKeys
    /\ HandleEvent(EnterEvt, MaxEvents)

\* C7, as stated: Enter with a buffer that is no supported key leaves the sort
\* key unchanged and returns the machine to Normal with an empty buffer.
C7_InvalidEnterToNormal ==
    [][InvalidSortEnter =>
          /\ opts.sort' = opts.sort
          /\ ~waitingSortOption'
          /\ ~waitingLimitOption'
          /\ optionBuf' = <<>>]_vars

\* C7, amended: the sort key is always a supported key or absent; it changes
\* only on Enter in the sort prompt with a buffer equal to a supported key, to
\* that key, the machine returning to Normal with an empty buffer; Enter with
\* any other buffer changes no option and leaves the sort prompt active with
\* its buffer, starting a goroutine that later sets waitingSortOption to false
\* and then empties the buffer.
C7_SortKeyCommit ==
    /\ [](opts.sort \in SortKeys \cup {NoSort})
    /\ [][opts.sort' # opts.sort =>
             /\ waitingSortOption
             /\ optionBuf \in SortKeys
             /\ HandleEvent(EnterEvt, MaxEvents)
             /\ opts.sort' = optionBuf
             /\ ~waitingSortOption'
             /\ ~waitingLimitOption'
             /\ optionBuf' = <<>>]_vars
    /\ [][InvalidSortEnter =>
             /\ opts' = opts
             /\ waitingSortOption'
             /\ waitingLimitOption' = waitingLimitOption
             /\ optionBuf' = optionBuf
             /\ gSleeping' = gSleeping + 1]_vars
    /\ [][gSleeping' < gSleeping =>
             /\ gClearing' = gClearing + 1
             /\ (nEvents' = nEvents => ~waitingSortOption')]_vars
    /\ [][gClearing' < gClearing => optionBuf' = <<>>]_vars

\* o, c, i, Enter: the goroutine started, the prompt and its buffer still there
C7_Witness ==
    /\ nEvents = 4
    /\ gSleeping = 1
    /\ waitingSortOption
    /\ optionBuf = <<"c", "i">>
    /\ opts.sort \in {SortBySubs, NoSort}

\* Enter arriving while the limit prompt is active
LimitEnter ==
    /\ waitingLimitOption
    /\ HandleEvent(EnterEvt, MaxEvents)

\* C8: Enter in the limit prompt sets the limit to the integer the buffer
\* parses as (250 for "250") and keeps the limit when the buffer does not parse
\* (empty, or starting with a letter); either way the machine is in Normal with
\* an empty buffer; nothing else changes the limit.
C8_LimitCommit ==
    /\ [][LimitEnter =>
             /\ opts.conns' = (IF Sscanf(optionBuf).ok THEN Sscanf(optionBuf).n
                               ELSE opts.conns)
             /\ (optionBuf = <<"2", "5", "0">> => opts.conns' = 250)
             /\ ((optionBuf = <<>> \/ (optionBuf # <<>> /\ Head(optionBuf) \notin Digits))
                    => opts.conns' = opts.conns)
             /\ ~waitingLimitOption'
             /\ ~waitingSortOption'
             /\ optionBuf' = <<>>]_vars
    /\ [][opts.conns' # opts.conns => (LimitEnter /\ Sscanf(optionBuf).ok)]_vars

\* n, 2, 5, 0, Enter
C8_Witness ==
    /\ nEvents = 5
    /\ opts.conns = 250
    /\ ~waitingLimitOption
    /\ ~waitingSortOption
    /\ optionBuf = <<>>

\* C9: while a prompt is active a printable character, q, o and n included, is
\* only appended to the buffer, and the space key too leaves the input mode
\* and the view alone: the process does not exit, the input mode and the view
\* do not change.
C9_PromptCapturesKeys ==
    [][\A e \in {KeyEvt(c) : c \in InputChars} \cup {SpaceEvt} :
          (PromptActive /\ HandleEvent(e, MaxEvents)) =>
              /\ ~exited'
              /\ waitingSortOption' = waitingSortOption
              /\ waitingLimitOption' = waitingLimitOption
              /\ viewMode' = viewMode
              /\ (e # SpaceEvt => optionBuf' = Append(optionBuf, e.Ch))]_vars

\* C10: while a prompt is active a backspace on an empty buffer and a resize
\* leave the buffer, the input mode and the options unchanged.
C10_UnhandledIgnored ==
    [][\A e \in InputEvents :
          (/\ PromptActive
           /\ \/ IsResize(e)
              \/ IsBackspace(e) /\ optionBuf = <<>>
           /\ HandleEvent(e, MaxEvents)) =>
              UNCHANGED <<optionBuf, waitingSortOption, waitingLimitOption, opts>>]_vars

(***************************************************************************)
(* Properties of the shared state.                                         *)
(***************************************************************************)
\* C11: no goroutine is inside a read of opts while the foreground loop is
\* inside an assignment to opts.
C11_NoRacingAccess == ~(wr.active /\ readers # {})

(***************************************************************************)
(* Properties of painting.                                                 *)
(***************************************************************************)
\* the position of a goroutine that has one
Pc(g) == CASE g = "loop" -> fgPc [] g = "update" -> uPc [] g = "sampler" -> mPc

\* the goroutines inside ui.Render
Painters == {g \in {"loop", "update", "sampler"} : Pc(g) = "render"}

Published == [k \in 1..Len(history) |-> history[k].stats]

\* the updates of the widgets that were completed
Displayed == Len(received) - (IF uPc = "update" THEN 1 ELSE 0)

\* C13: what the update goroutine has taken from statsCh is what the sampler
\* published, each snapshot once and in order, less only the snapshot of a
\* publish still blocked; the sampler is in cycle c only when the c - 1 earlier
\* snapshots were all taken; updates of the display never outnumber cycles; a
\* publish completes only in the step in which the update goroutine receives.
C13_UnbufferedHandoff ==
    /\ [](/\ received = SubSeq(Published, 1,
                                Len(history) - (IF mPc = "send" THEN 1 ELSE 0))
          /\ Len(received) = cycles - (IF mPc = "sleep" THEN 0 ELSE 1)
          /\ Displayed <= cycles)
    /\ [][(mPc = "send" /\ mPc' # "send") =>
             /\ uPc = "recv"
             /\ uPc' = "update"
             /\ uStats' = stats
             /\ received' = Append(received, stats)]_vars
    /\ [][received' # received => (mPc = "send" /\ mPc' = "sleep")]_vars

\* the third publish blocked: the update goroutine waits on redraw with the
\* second snapshot while the loop paints
C13_Witness ==
    /\ mPc = "send"
    /\ cycles = 3
    /\ Len(received) = 2
    /\ uPc = "redraw"
    /\ fgPc = "render"
    /\ received[1] # history[3].stats

(***************************************************************************)
(* Properties of resizing and of the view.                                 *)
(***************************************************************************)
\* the handler of e, undisturbed or with the flag cleared under it
Handles(e) == HandleEvent(e, MaxEvents) \/ HandleEventRace(e, MaxEvents)

\* C14: the handler of a resize event, in either view and in any input mode,
\* starts exactly one goroutine that sends on redraw, and nothing else starts
\* one; each such send is received once, by the select, and starts a paint; the
\* panels get the heights H/7 (CPU), H/5 (connections) and H/3 (the others) of
\* the new terminal height H when the dashboard is the view, and keep their
\* heights when the top view is.
C14_ResizeSignalsOnce ==
    /\ [][\A e \in {ResizeEvt(h) : h \in ViewResizeHeights} :
             Handles(e) =>
                 /\ redrawPending' = redrawPending + 1
                 /\ viewMode' = viewMode
                 /\ IF viewMode = "dashboard"
                    THEN /\ heights'.cpu = e.Height \div 7
                         /\ heights'.conns = e.Height \div 5
                         /\ heights'.box = e.Height \div 3
                         /\ heights'.line = heights'.box - heights'.box \div 7
                    ELSE heights' = heights]_vars
    /\ [][redrawPending' > redrawPending =>
             \E e \in {ResizeEvt(h) : h \in ViewResizeHeights} : Handles(e)]_vars
    /\ [][redrawPending' < redrawPending =>
             /\ redrawPending' = redrawPending - 1
             /\ fgPc = "select"
             /\ fgPc' = "render"]_vars
    /\ [][heights' # heights => viewMode = "dashboard"]_vars

\* the dashboard resized to 21 lines, then the top view resized to 30 lines
\* while the limit prompt is open: the panels keep the heights of 21 lines
C14_Witness ==
    /\ viewMode = "top"
    /\ termH = 30
    /\ heights = [cpu |-> 3, conns |-> 4, box |-> 7, line |-> 6]
    /\ waitingLimitOption
    /\ redrawPending = 1

\* C15: the handler of the space key that changes the view starts a send on
\* redraw, as the handler of a resize does.
C15_ToggleSignalsRedraw ==
    [][(Handles(SpaceEvt) /\ viewMode' # viewMode) =>
          redrawPending' = redrawPending + 1]_vars

(***************************************************************************)
(* Properties of the update goroutine.                                     *)
(***************************************************************************)
\* what a snapshot contributes to the series f
Sample(f, st) ==
    CASE f = "conns"    -> st.Connz.NumConns
      [] f = "mem"      -> (st.Varz.Mem \div 1024) \div 1024
      [] f = "inMsgs"   -> Trunc(st.Rates.InMsgsRate)
      [] f = "inBytes"  -> Trunc(st.Rates.InBytesRate)
      [] f = "outMsgs"  -> Trunc(st.Rates.OutMsgsRate)
      [] f = "outBytes" -> Trunc(st.Rates.OutBytesRate)

\* the snapshot the update goroutine took last
Taken == received[Len(received)]

C17_PromptStartsEmpty ==
    [][\A e \in {KeyEvt("o"), KeyEvt("n")} :
          (~PromptActive /\ HandleEvent(e, MaxEvents)) =>
              (PromptActive' /\ optionBuf' = <<>>)]_vars

\* C19: a limit prompt open when the cleanup goroutine empties the buffer was
\* opened after the invalid Enter (which found the sort prompt open, hence the
\* limit prompt closed), so the cleanup leaves its buffer as it is.
C19_CleanupSparesLaterSession ==
    [][(gClearing' < gClearing /\ waitingLimitOption) => optionBuf' = optionBuf]_vars

(***************************************************************************)
(* Properties of failed cycles.                                            *)
(***************************************************************************)
\* the index of the last successful cycle published, 0 when there is none
LastOk == PrevOk(Len(history) + 1)

\* C18: the step that publishes a failed cycle leaves the last-seen counters,
\* pollTime and first as they were and publishes zero rates; so the baseline
\* is at all times that of the last successful cycle (of the start, before
\* one), and a successful cycle that follows failed ones publishes the
\* difference to the last successful cycle over the time since that cycle.
C18_FailureKeepsBaseline ==
    /\ [][(Len(history') = Len(history) + 1 /\ ~history'[Len(history')].ok) =>
             /\ UNCHANGED <<lastVal, pollTime, first>>
             /\ history'[Len(history')].stats.Rates = ZeroRates]_vars
    /\ [](IF LastOk = 0
          THEN first /\ lastVal = ZeroLast /\ pollTime = 0
          ELSE /\ ~first
               /\ lastVal = Counters(history[LastOk].stats.Varz)
               /\ pollTime = history[LastOk].at)
    /\ [](\A k \in 1..Len(history) :
             (history[k].ok /\ PrevOk(k) > 0 /\ PrevOk(k) < k - 1) =>
                 history[k].stats.Rates = RatesBetween(history[PrevOk(k)], history[k]))

\* a success reading 500 messages, a failed cycle, a success reading 1000: the
\* third snapshot carries 500 messages over the two intervals
C18_Witness ==
    /\ Len(history) = 3
    /\ history[1].ok /\ history[1].stats.Varz.InMsgs = 500
    /\ ~history[2].ok /\ history[2].stats.Rates = ZeroRates
    /\ history[3].ok /\ history[3].stats.Varz.InMsgs = 1000
    /\ history[3].at - history[1].at = 2 * TicksPerSec + 1
    /\ history[3].stats.Rates.InMsgsRate = Rat(500 * TicksPerSec, 2 * TicksPerSec + 1)

(***************************************************************************)
(* Properties of painting against updating.                                *)
(***************************************************************************)
\* C20: the loop is never inside ui.Render while the update goroutine is
\* between its receive of a snapshot and its send on redraw.
C20_PaintExcludesUpdate == ~(fgPc = "render" /\ uPc = "update")

====
